---- MODULE Spec2Model ----
(***************************************************************************)
(* A model of MovmentSimulatin/2D.py: the Vector arithmetic, Obj (a body   *)
(* that registers itself in its Environment while it is constructed),      *)
(* Obstacle.check_collision and the step loop of                           *)
(* Environment.simulate_movement.                                          *)
(*                                                                         *)
(* Numbers.  The program computes with floats; the model computes with     *)
(* exact fixed-point integers.  One model unit is 1/(100 * Scale) of a     *)
(* program unit, so 9.81 is 981 * Scale and 0.56 is 56 * Scale.  Scale is  *)
(* a power of two large enough that every halving of a velocity by the     *)
(* collision response, every 0.5 * time_step^2 and every division by a     *)
(* mass of the input set is exact.  Float rounding is not modelled.        *)
(***************************************************************************)
EXTENDS Integers, Sequences, FiniteSets, TLC

VARIABLES
    gravity,              \* Environment.gravity
    wind,                 \* Environment.wind
    objects,              \* Environment.objects: the Obj instances, in insertion order
    obstacles,            \* Environment.obstacles
    pc,                   \* position inside simulate_movement, "idle" outside a call
    time_step,            \* simulate_movement's argument time_step
    steps,                \* simulate_movement's argument steps
    ident,                \* simulate_movement's argument ident
    objects_to_simulate,  \* the local list, as indices into objects
    step,                 \* iterations of `for step in range(steps)` begun so far
    oi,                   \* position of `for obj in objects_to_simulate`
    bi,                   \* position of `for obstacle in self.obstacles`
    err,                  \* the exception the last call raised, "none" if it raised none
    advanced,             \* history: how often update_place ran on each object
    vadv,                 \* history: the current object's velocity as update_place left it
    hits,                 \* history: collisions reported for the current object in this step
    log,                  \* history: the update_place / check_collision calls of this run
    vecop                 \* the last Vector operation applied and its outcome (SpecVec)

vars == <<gravity, wind, objects, obstacles, pc, time_step, steps, ident,
          objects_to_simulate, step, oi, bi, err, advanced, vadv, hits, log, vecop>>

envVars   == <<gravity, wind>>
frameVars == <<time_step, steps, ident, objects_to_simulate, step, oi, bi>>
histVars  == <<vadv, hits, log>>

----
\* Bounds of the model.

MaxBodies == 2
MaxObstacles == 2
MaxSteps == 2
MaxDim == 3

\* A velocity is halved at most once per obstacle per update_place.
HalvingBits == MaxSteps * MaxObstacles
Scale == 2 ^ HalvingBits

\* x, y in hundredths of a program unit.
P(x, y) == <<x * Scale, y * Scale>>

None == "None"

\* an exception: its class and what its message names
Exc(type, arg) == [type |-> type, arg |-> arg]
NoError == Exc("none", None)

----
\* Python values: a call either returns a value or raises.

Ok(v) == [val |-> v]
Raise(e) == [exc |-> e]
Raised(r) == "exc" \in DOMAIN r

\* Exact quotient; the sign is carried so the divisor is positive.
Div(a, b) == IF b < 0 THEN (-a) \div (-b) ELSE a \div b

Abs(a) == IF a < 0 THEN -a ELSE a

----
\* class Vector

\* zip() without the length check: the result has the shorter operand's length
VecAdd_NoCheck(a, b) ==
    LET n == IF Len(a) < Len(b) THEN Len(a) ELSE Len(b)
    IN  Ok([i \in 1..n |-> a[i] + b[i]])

VecAdd(a, b) ==
    IF Len(a) # Len(b) THEN Raise(Exc("ValueError", "dimension"))
    ELSE Ok([i \in 1..Len(a) |-> a[i] + b[i]])

VecSub(a, b) ==
    IF Len(a) # Len(b) THEN Raise(Exc("ValueError", "dimension"))
    ELSE Ok([i \in 1..Len(a) |-> a[i] - b[i]])

\* Not in 2D.py: the dot product of the specification's Vector.
RECURSIVE SumProd(_, _, _)
SumProd(a, b, n) == IF n = 0 THEN 0 ELSE SumProd(a, b, n - 1) + a[n] * b[n]

VecDot(a, b) ==
    IF Len(a) # Len(b) THEN Raise(Exc("ValueError", "dimension"))
    ELSE Ok(SumProd(a, b, Len(a)))

\* __mul__ by the scalar num/den.
VecMul(a, num, den) == [i \in 1..Len(a) |-> Div(a[i] * num, den)]

----
\* class Obj.  An Obj is a record of the attributes set so far: __init__ registers
\* the object before it sets acc and path, so a record may lack those two fields.

HasAttr(o, a) == a \in DOMAIN o

calculate_acceleration(o) ==
    LET gravity_effect == <<0, -gravity * o.mass>>
        net_force == VecAdd(VecAdd(o.force, gravity_effect).val, wind).val
    IN  IF o.mass = 0 THEN Raise(Exc("ZeroDivisionError", "mass"))
        ELSE Ok([i \in 1..Len(net_force) |-> Div(net_force[i], o.mass)])

\* the velocity is updated first and the place computed from the new velocity
update_place_VelFirst(o, dt) ==
    IF ~HasAttr(o, "acc") THEN Raise(Exc("AttributeError", "acc"))
    ELSE
    LET vel1 == VecAdd(o.vel, VecMul(o.acc, dt, 1)).val
        place1 == VecAdd(VecAdd(o.place, VecMul(vel1, dt, 1)).val,
                         VecMul(o.acc, dt * dt, 2)).val
        acc1 == calculate_acceleration(o).val
    IN  Ok([o EXCEPT !.place = place1,
                     !.vel = vel1,
                     !.acc = acc1,
                     !.path = Append(o.path, <<place1[1], place1[2]>>)])

update_place(o, dt) ==
    IF ~HasAttr(o, "acc") THEN Raise(Exc("AttributeError", "acc"))
    ELSE
    LET place1 == VecAdd(VecAdd(o.place, VecMul(o.vel, dt, 1)).val,
                         VecMul(o.acc, dt * dt, 2)).val
        vel1 == VecAdd(o.vel, VecMul(o.acc, dt, 1)).val
        acc1 == calculate_acceleration(o).val
    IN  Ok([o EXCEPT !.place = place1,
                     !.vel = vel1,
                     !.acc = acc1,
                     !.path = Append(o.path, <<place1[1], place1[2]>>)])

----
\* class Obstacle

\* a * a for 0 <= a < 2^20, as <<hi, lo>> with value hi * Base + lo and 0 <= lo < Base:
\* the squares of line 106 do not fit in the integers the model checker computes with.
Base == 2 ^ 15

Sq(a) ==
    LET a1 == a \div Base
        a0 == a % Base
    IN  <<a1 * a1 * Base + 2 * a1 * a0 + (a0 * a0) \div Base, (a0 * a0) % Base>>

\* dx^2 + dy^2 <= r^2 for 0 <= dx, dy <= r
SqSumLeq(dx, dy, r) ==
    LET s == Sq(dx)
        t == Sq(dy)
        u == Sq(r)
        lo == s[2] + t[2]
        hi == s[1] + t[1] + lo \div Base
    IN  hi < u[1] \/ (hi = u[1] /\ lo % Base <= u[2])

\* dx^2 + dy^2 < r^2 for 0 <= dx, dy <= r
SqSumLess(dx, dy, r) ==
    LET s == Sq(dx)
        t == Sq(dy)
        u == Sq(r)
        lo == s[2] + t[2]
        hi == s[1] + t[1] + lo \div Base
    IN  hi < u[1] \/ (hi = u[1] /\ lo % Base < u[2])

\* distance < radius: the boundary is left out
check_collision_Strict(obstacle, obj) ==
    LET dx == Abs(obj.place[1] - obstacle.position[1])
        dy == Abs(obj.place[2] - obstacle.position[2])
    IN  /\ dx <= obstacle.radius
        /\ dy <= obstacle.radius
        /\ SqSumLess(dx, dy, obstacle.radius)

\* distance <= radius, with distance = (dx^2 + dy^2) ** 0.5 >= max(|dx|, |dy|)
check_collision(obstacle, obj) ==
    LET dx == Abs(obj.place[1] - obstacle.position[1])
        dy == Abs(obj.place[2] - obstacle.position[2])
    IN  /\ dx <= obstacle.radius
        /\ dy <= obstacle.radius
        /\ SqSumLeq(dx, dy, obstacle.radius)

----
\* class Environment

\* the last match instead of the first
RECURSIVE ScanLast(_, _)
ScanLast(i, id) ==
    IF i < 1 THEN Raise(Exc("ValueError", id))
    ELSE IF objects[i].ident = id THEN Ok(i)
    ELSE ScanLast(i - 1, id)

get_obj_LastMatch(id) == ScanLast(Len(objects), id)

RECURSIVE ScanFrom(_, _)
ScanFrom(i, id) ==
    IF i > Len(objects) THEN Raise(Exc("ValueError", id))
    ELSE IF objects[i].ident = id THEN Ok(i)
    ELSE ScanFrom(i + 1, id)

\* the object is returned by reference: its index in objects
get_obj(id) == ScanFrom(1, id)

\* the velocity is reversed and not damped
collision_response_NoDamping(vel) == VecMul(vel, -1, 1)

\* line 148: obj.vel * -0.5
collision_response(vel) == VecMul(vel, -1, 2)

\* `if ident`: None and the empty string are false
Truthy(id) == id # None /\ id # ""

----
\* Inputs.

\* Environment(gravity, wind): no gravity, the defaults of line 111 (9.81, no wind),
\* and the default gravity with the wind (0.56, 0) of line 175
EnvInputs ==
    { [gravity |-> 0,           wind |-> P(0, 0)],
      [gravity |-> 981 * Scale, wind |-> P(0, 0)],
      [gravity |-> 981 * Scale, wind |-> P(56, 0)] }

Idents == {"X", "Y"}
TargetIdents == {None, "X", "Y", "Z"}
TimeSteps == {1, 2}

\* mass, initial velocity and force of the bodies constructed
BodyInputs ==
    { [mass |-> 1,  vel |-> P(0, 0),      force |-> P(0, 0)],
      [mass |-> 2,  vel |-> P(2000, 100), force |-> P(0, 0)],
      [mass |-> 1,  vel |-> P(1000, 100), force |-> P(0, 0)],
      [mass |-> 0,  vel |-> P(500, 1500), force |-> P(0, -500)],
      [mass |-> -1, vel |-> P(1000, 100), force |-> P(0, -50)] }

\* the obstacle of the example (line 187) and one that overlaps it
ObstacleInputs ==
    { [position |-> P(2000, 0),   radius |-> 200 * Scale],
      [position |-> P(2000, 200), radius |-> 100 * Scale] }

PathLen(o) == IF HasAttr(o, "path") THEN Len(o.path) ELSE 0

----
\* The state after Environment(gravity, wind), lines 111-122.

Reset ==
    /\ pc = "idle"
    /\ time_step = 0
    /\ steps = 0
    /\ ident = None
    /\ objects_to_simulate = <<>>
    /\ step = 0
    /\ oi = 0
    /\ bi = 0
    /\ vadv = <<0, 0>>
    /\ hits = 0
    /\ log = <<>>

\* the locals of simulate_movement after it has returned or raised
Leave ==
    /\ pc' = "idle"
    /\ time_step' = 0
    /\ steps' = 0
    /\ ident' = None
    /\ objects_to_simulate' = <<>>
    /\ step' = 0
    /\ oi' = 0
    /\ bi' = 0
    /\ vadv' = <<0, 0>>
    /\ hits' = 0
    /\ log' = <<>>

NoVecOp == [op |-> "none", a |-> <<>>, b |-> <<>>, out |-> Ok(<<>>), kind |-> "Vector"]

Init ==
    /\ \E e \in EnvInputs : gravity = e.gravity /\ wind = e.wind
    /\ objects = <<>>
    /\ obstacles = <<>>
    /\ err = NoError
    /\ advanced = <<>>
    /\ vecop = NoVecOp
    /\ Reset

\* Obj.__init__, lines 61-69, with add_obj (line 125) and calculate_acceleration
\* inlined at its call.  The object is in self.env.objects from line 67 on; when
\* line 68 raises, lines 68-69 have set neither acc nor path.
Construct(mass, vel, force, id) ==
    LET o == [mass |-> mass, vel |-> vel, force |-> force, ident |-> id,
              place |-> <<0, 0>>]
        a == calculate_acceleration(o)
    IN  IF Raised(a)
        THEN [objs |-> Append(objects, o), exc |-> a.exc]
        ELSE [objs |-> Append(objects,
                              [mass |-> mass, vel |-> vel, force |-> force,
                               ident |-> id, place |-> <<0, 0>>,
                               acc |-> a.val, path |-> <<>>]),
              exc |-> NoError]

NewObj ==
    /\ pc = "idle"
    /\ Len(objects) < MaxBodies
    /\ \E b \in BodyInputs, id \in Idents :
         LET r == Construct(b.mass, b.vel, b.force, id)
         IN  /\ objects' = r.objs
             /\ err' = r.exc
    /\ advanced' = Append(advanced, 0)
    /\ UNCHANGED <<envVars, obstacles, pc, frameVars, histVars, vecop>>

\* Environment.add_obstacle, lines 127-128
AddObstacle ==
    /\ pc = "idle"
    /\ Len(obstacles) < MaxObstacles
    /\ \E ob \in ObstacleInputs : obstacles' = Append(obstacles, ob)
    /\ err' = NoError
    /\ UNCHANGED <<envVars, objects, pc, frameVars, histVars, advanced, vecop>>

----
\* Environment.simulate_movement, lines 130-150, one action per loop position.

\* the identifier is ignored
WorkingSet_All(id) == Ok([i \in 1..Len(objects) |-> i])

\* line 139
WorkingSet(id) ==
    IF Truthy(id)
    THEN LET r == get_obj(id)
         IN  IF Raised(r) THEN r ELSE Ok(<<r.val>>)
    ELSE Ok([i \in 1..Len(objects) |-> i])

\* the call and line 139; the exception of get_obj ends the call
SimulateMovement ==
    /\ pc = "idle"
    /\ \E dt \in TimeSteps, n \in 0..MaxSteps, id \in TargetIdents :
         /\ \A i \in 1..Len(objects) : PathLen(objects[i]) + n <= MaxSteps
         /\ LET w == WorkingSet(id)
            IN  IF Raised(w)
                THEN /\ err' = w.exc
                     /\ UNCHANGED <<pc, frameVars>>
                ELSE /\ err' = NoError
                     /\ pc' = "for_step"
                     /\ time_step' = dt
                     /\ steps' = n
                     /\ ident' = id
                     /\ objects_to_simulate' = w.val
                     /\ step' = 0
                     /\ oi' = 0
                     /\ bi' = 0
    /\ UNCHANGED <<envVars, objects, obstacles, advanced, histVars, vecop>>

\* lines 141-142: the next iteration of `for step in range(steps)`
ForStep ==
    /\ pc = "for_step"
    /\ step < steps
    /\ step' = step + 1
    /\ oi' = 1
    /\ pc' = "for_obj"
    /\ UNCHANGED <<envVars, objects, obstacles, time_step, steps, ident,
                   objects_to_simulate, bi, err, advanced, histVars, vecop>>

\* range(steps) is exhausted: the call returns and its locals are gone
Return ==
    /\ pc = "for_step"
    /\ step >= steps
    /\ Leave
    /\ UNCHANGED <<envVars, objects, obstacles, err, advanced, vecop>>

\* lines 143-144: the next obj, and obj.update_place(time_step)
UpdateObj ==
    /\ pc = "for_obj"
    /\ oi <= Len(objects_to_simulate)
    /\ LET k == objects_to_simulate[oi]
           r == update_place(objects[k], time_step)
       IN  /\ ~Raised(r)
           /\ objects' = [objects EXCEPT ![k] = r.val]
           /\ advanced' = [advanced EXCEPT ![k] = @ + 1]
           /\ vadv' = r.val.vel
           /\ hits' = 0
           /\ log' = Append(log, <<"update", k, step>>)
    /\ bi' = 1
    /\ pc' = "for_obstacle"
    /\ UNCHANGED <<envVars, obstacles, time_step, steps, ident,
                   objects_to_simulate, step, oi, err, vecop>>

\* line 144 on an object whose construction raised: update_place reads self.acc,
\* the AttributeError leaves simulate_movement
UpdateRaises ==
    /\ pc = "for_obj"
    /\ oi <= Len(objects_to_simulate)
    /\ LET r == update_place(objects[objects_to_simulate[oi]], time_step)
       IN  /\ Raised(r)
           /\ err' = r.exc
    /\ Leave
    /\ UNCHANGED <<envVars, objects, obstacles, advanced, vecop>>

\* line 150: objects_to_simulate is exhausted
EndStep ==
    /\ pc = "for_obj"
    /\ oi > Len(objects_to_simulate)
    /\ pc' = "for_step"
    /\ UNCHANGED <<envVars, objects, obstacles, time_step, steps, ident,
                   objects_to_simulate, step, oi, bi, err, advanced, histVars, vecop>>

\* lines 145-146: the next obstacle, and obstacle.check_collision(obj)
CheckObstacle ==
    /\ pc = "for_obstacle"
    /\ bi <= Len(obstacles)
    /\ LET k == objects_to_simulate[oi]
       IN  /\ log' = Append(log, <<"check", k, bi, step>>)
           /\ IF check_collision(obstacles[bi], objects[k])
              THEN pc' = "collision"
              ELSE /\ pc' = "for_obstacle"
           /\ bi' = IF check_collision(obstacles[bi], objects[k]) THEN bi ELSE bi + 1
    /\ UNCHANGED <<envVars, objects, obstacles, time_step, steps, ident,
                   objects_to_simulate, step, oi, err, advanced, vadv, hits, vecop>>

\* lines 147-148: obj.vel = obj.vel * -0.5
Respond ==
    /\ pc = "collision"
    /\ LET k == objects_to_simulate[oi]
       IN  objects' = [objects EXCEPT ![k].vel = collision_response(@)]
    /\ hits' = hits + 1
    /\ bi' = bi + 1
    /\ pc' = "for_obstacle"
    /\ UNCHANGED <<envVars, obstacles, time_step, steps, ident,
                   objects_to_simulate, step, oi, err, advanced, vadv, log, vecop>>

\* the loops nested the other way: an object takes all its steps before the next
PrintObj_ObjectFirst ==
    /\ pc = "for_obstacle"
    /\ bi > Len(obstacles)
    /\ IF step < steps
       THEN step' = step + 1 /\ oi' = oi
       ELSE step' = 1 /\ oi' = oi + 1
    /\ pc' = "for_obj"
    /\ UNCHANGED <<envVars, objects, obstacles, time_step, steps, ident,
                   objects_to_simulate, bi, err, advanced, histVars, vecop>>

\* line 149: self.obstacles is exhausted, print(obj)
PrintObj ==
    /\ pc = "for_obstacle"
    /\ bi > Len(obstacles)
    /\ oi' = oi + 1
    /\ pc' = "for_obj"
    /\ UNCHANGED <<envVars, objects, obstacles, time_step, steps, ident,
                   objects_to_simulate, step, bi, err, advanced, histVars, vecop>>

Next ==
    \/ NewObj
    \/ AddObstacle
    \/ SimulateMovement
    \/ ForStep
    \/ Return
    \/ UpdateObj
    \/ UpdateRaises
    \/ EndStep
    \/ CheckObstacle
    \/ Respond
    \/ PrintObj

Spec == Init /\ [][Next]_vars

----
\* The Vector operations on their own: operands of every length up to MaxDim.

Components == {-1, 2}
Vectors == UNION {[1..n -> Components] : n \in 0..MaxDim}

\* a + b, line 9
ApplyAdd ==
    vecop' = [vecop EXCEPT !.op = "add", !.out = VecAdd(vecop.a, vecop.b),
                           !.kind = "Vector"]

\* a - b, line 14
ApplySub ==
    vecop' = [vecop EXCEPT !.op = "sub", !.out = VecSub(vecop.a, vecop.b),
                           !.kind = "Vector"]

\* dot(a, b)
ApplyDot ==
    vecop' = [vecop EXCEPT !.op = "dot", !.out = VecDot(vecop.a, vecop.b),
                           !.kind = "float"]

\* two operands, in a default Environment that stays empty
InitVec ==
    /\ \E a \in Vectors, b \in Vectors : vecop = [NoVecOp EXCEPT !.a = a, !.b = b]
    /\ gravity = 981 * Scale
    /\ wind = P(0, 0)
    /\ objects = <<>>
    /\ obstacles = <<>>
    /\ err = NoError
    /\ advanced = <<>>
    /\ Reset

NextVec ==
    /\ \/ ApplyAdd
       \/ ApplySub
       \/ ApplyDot
    /\ UNCHANGED <<envVars, objects, obstacles, pc, frameVars, err, advanced, histVars>>

SpecVec == InitVec /\ [][NextVec]_vars

----
----
\* the lowest index of an object named id, 0 if there is none
First(id) ==
    IF \E i \in 1..Len(objects) : objects[i].ident = id
    THEN CHOOSE i \in 1..Len(objects) :
            /\ objects[i].ident = id
            /\ \A j \in 1..(i - 1) : objects[j].ident # id
    ELSE 0

\* the object the loop of simulate_movement is at
Current == objects[objects_to_simulate[oi]]

\* C1: every step of a simulate_movement call that was given an identifier leaves
\* every object but the first one of that name as it was: place, vel, acc and path.
C1_OnlyTargetAdvances ==
    [][ (pc # "idle" /\ ident # None) =>
            /\ Len(objects') = Len(objects)
            /\ \A i \in 1..Len(objects) :
                  i # First(ident) => objects'[i] = objects[i] ]_vars

\* C1 witness: a call for "Y" has advanced the second of two bodies twice, past an
\* obstacle, and the body "X" has not moved
C1_Witness ==
    /\ pc = "for_step"
    /\ ident = "Y"
    /\ step = 2
    /\ Len(objects) = 2
    /\ Len(obstacles) >= 1
    /\ objects[1].ident = "X"
    /\ advanced = <<0, 2>>
    /\ objects[2].place # <<0, 0>>
    /\ HasAttr(objects[1], "path")
    /\ objects[1].path = <<>>

\* C2: when all obstacles have been tested for the current object, its velocity is
\* the velocity update_place left times (-0.5)^k, k the number of obstacles that
\* collide with its new place; during the tests the same holds of the obstacles
\* tested so far.  A velocity (4, 0) becomes (-2, 0) in one response.
C2_CumulativeResponse ==
    /\ collision_response(P(400, 0)) = P(-200, 0)
    /\ pc = "for_obstacle" =>
          LET k == Cardinality({j \in 1..(bi - 1) :
                                  check_collision(obstacles[j], Current)})
          IN  /\ hits = k
              /\ \A c \in 1..2 : Current.vel[c] * (2 ^ k) = vadv[c] * ((-1) ^ k)

\* C2 witness: two obstacles collided with a moving object in one step
C2_Witness ==
    /\ pc = "for_obstacle"
    /\ bi > Len(obstacles)
    /\ hits = 2
    /\ vadv = P(2000, 100)
    /\ Current.vel = P(500, 25)

\* C3: no object of the Environment has a mass of zero or less (the constructor
\* having refused it).
C3_NoInvalidMass ==
    \A i \in 1..Len(objects) : objects[i].mass > 0

\* get_obj against the list of objects, for every identifier
C4_LookupInv ==
    \A id \in TargetIdents \ {None} :
        LET r == get_obj(id)
        IN  IF \A i \in 1..Len(objects) : objects[i].ident # id
            THEN Raised(r) /\ r.exc = Exc("ValueError", id)
            ELSE /\ ~Raised(r)
                 /\ r.val = First(id)

\* a step in which get_obj raises inside simulate_movement
C4_RaiseStep ==
    (err'.type = "ValueError" /\ err' # err) =>
        /\ pc = "idle"
        /\ pc' = "idle"
        /\ First(err'.arg) = 0
        /\ objects' = objects
        /\ advanced' = advanced

\* C4: get_obj returns the first object of the name, in insertion order, and raises
\* exactly when there is none; a simulate_movement call that raises for its
\* identifier changes no object and starts no loop.
C4_LookupFirstMatch == []C4_LookupInv /\ [][C4_RaiseStep]_vars

\* C4 witness: with two different bodies named "X", a call for "Z" has raised
C4_Witness ==
    /\ Len(objects) = 2
    /\ objects[1].ident = "X"
    /\ objects[2].ident = "X"
    /\ objects[1] # objects[2]
    /\ err = Exc("ValueError", "Z")
    /\ advanced = <<1, 0>>

\* the step is update_place on object k
Updates(k) == Len(advanced') = Len(advanced) /\ advanced'[k] = advanced[k] + 1

\* an update_place step, and the example of a body falling from rest
C6_UpdateStep ==
    \A k \in 1..Len(objects) :
        Updates(k) =>
            LET o == objects[k]
                n == objects'[k]
            IN  /\ \A c \in 1..2 :
                      /\ n.place[c] = o.place[c] + o.vel[c] * time_step
                                        + (o.acc[c] * time_step * time_step) \div 2
                      /\ n.vel[c] = o.vel[c] + o.acc[c] * time_step
                /\ ( /\ gravity = 981 * Scale
                     /\ wind = <<0, 0>>
                     /\ o.force = <<0, 0>>
                     /\ o.vel = <<0, 0>>
                     /\ o.place = <<0, 0>>
                     /\ time_step = 1 )
                   => /\ n.vel = P(0, -981)
                      /\ n.place = <<0, -((4905 * Scale) \div 10)>>

\* C6: update_place computes the new place from the old place, the old velocity and
\* the old acceleration, and the new velocity from the old velocity and the old
\* acceleration; from rest at the origin with no force and no wind under gravity
\* 9.81, one update with time_step 1 gives velocity (0, -9.81), place (0, -4.905).
C6_UpdateOrder == [][C6_UpdateStep]_vars

\* C6 witness: the body of the example after its first update
C6_Witness ==
    /\ pc = "for_obstacle"
    /\ time_step = 1
    /\ gravity = 981 * Scale
    /\ wind = <<0, 0>>
    /\ advanced[objects_to_simulate[oi]] = 1
    /\ Current.mass = 1
    /\ Current.force = <<0, 0>>
    /\ Current.vel = P(0, -981)
    /\ Current.place = <<0, -((4905 * Scale) \div 10)>>

\* the step is a check_collision call
Checks == Len(log') = Len(log) + 1 /\ log'[Len(log')][1] = "check"

\* a/b <= c/d for a, c >= 0 and b, d > 0, by comparing the continued fractions
RECURSIVE LeqFrac(_, _, _, _)
LeqFrac(a, b, c, d) ==
    IF a \div b # c \div d THEN a \div b < c \div d
    ELSE IF a % b = 0 THEN TRUE
    ELSE IF c % d = 0 THEN FALSE
    ELSE LeqFrac(d, c % d, b, a % b)

\* the Euclidean distance of p and q is at most r: dx^2 + dy^2 <= r^2, which for
\* dy > 0 and dx < r is dy / (r - dx) <= (r + dx) / dy
Within(p, q, r) ==
    LET dx == Abs(p[1] - q[1])
        dy == Abs(p[2] - q[2])
    IN  /\ dx <= r
        /\ dy <= r
        /\ dy = 0 \/ (dx < r /\ LeqFrac(dy, r - dx, r + dx, dy))

ExampleObstacle == [position |-> P(2000, 0), radius |-> 200 * Scale]

\* a check_collision step
C7_CheckStep ==
    Checks =>
        /\ (pc' = "collision") <=> Within(Current.place, obstacles[bi].position,
                                          obstacles[bi].radius)
        /\ objects' = objects
        /\ obstacles' = obstacles
        /\ gravity' = gravity
        /\ wind' = wind

\* the obstacle at (20, 0) with radius 2 and places (20, 1), (20, 2), (20, 3)
C7_Examples ==
    /\ check_collision(ExampleObstacle, [place |-> P(2000, 100)])
    /\ check_collision(ExampleObstacle, [place |-> P(2000, 200)])
    /\ ~check_collision(ExampleObstacle, [place |-> P(2000, 300)])

\* C7: check_collision reports a collision exactly when the object's place is
\* within the radius of the obstacle's position, the boundary included, and the
\* call changes neither the objects nor the obstacles nor the Environment.
C7_CollisionIffWithin == []C7_Examples /\ [][C7_CheckStep]_vars

\* C7 witness: a collision was reported for a body on the boundary, at (20, 2), of
\* the obstacle at (20, 0) with radius 2
C7_Witness ==
    /\ pc = "collision"
    /\ obstacles[bi] = ExampleObstacle
    /\ Current.place = P(2000, 200)

\* the call that position x of the loop nest makes: in each step, for each object
\* of the working set in order, update_place and then one check per obstacle
Scheduled(x) ==
    LET per == 1 + Len(obstacles)
        all == Len(objects_to_simulate) * per
        s == (x - 1) \div all + 1
        w == (x - 1) % all
        k == objects_to_simulate[w \div per + 1]
        q == w % per
    IN  IF q = 0 THEN <<"update", k, s>> ELSE <<"check", k, q, s>>

\* the log is a prefix of the schedule, complete at every step boundary, and the
\* last recorded place follows from the one before it and the velocity of update_place
C8_Schedule ==
    /\ \A x \in 1..Len(log) : log[x] = Scheduled(x)
    /\ pc = "for_step" =>
          Len(log) = step * Len(objects_to_simulate) * (1 + Len(obstacles))
    /\ pc \in {"for_obstacle", "collision"} =>
          LET o == Current
              n == Len(o.path)
              before == IF n = 1 THEN <<0, 0>> ELSE o.path[n - 1]
          IN  \A c \in 1..2 :
                  2 * (o.path[n][c] - before[c])
                      = 2 * vadv[c] * time_step - o.acc[c] * time_step * time_step

\* the collision response touches the velocity of the current object alone: the
\* place recorded for this step stays
C8_ResponseStep ==
    (hits' = hits + 1) =>
        LET k == objects_to_simulate[oi]
        IN  /\ \A i \in 1..Len(objects) : i # k => objects'[i] = objects[i]
            /\ objects'[k] = [objects[k] EXCEPT !.vel = objects'[k].vel]
            /\ objects'[k].vel # objects[k].vel \/ objects[k].vel = <<0, 0>>
            /\ objects'[k].path[Len(objects'[k].path)] = objects'[k].place

\* C8: the calls of a run come in the order of the loop nest: step by step, within
\* a step object by object in insertion order, for each object update_place and
\* then every obstacle's check; a step has made all its calls when the next one
\* begins, and a collision response changes the velocity and not the place or path:
\* the place recorded in a step is the one before it plus what the velocity and the
\* acceleration of update_place give, whatever the responses of that step.
C8_StepOrder == []C8_Schedule /\ [][C8_ResponseStep]_vars

\* C8 witness: a run of two steps over two bodies and an obstacle has finished, and
\* the first step ended in a collision for the first body
C8_Witness ==
    /\ pc = "for_step"
    /\ ident = None
    /\ step = 2
    /\ steps = 2
    /\ Len(objects_to_simulate) = 2
    /\ Len(obstacles) >= 1
    /\ HasAttr(objects[1], "path")
    /\ Len(objects[1].path) = 2
    /\ check_collision(obstacles[1], [place |-> objects[1].path[1]])
    /\ objects[1].path[2] = objects[1].place

\* the path of every object against the number of its updates
C9_PathInv ==
    \A i \in 1..Len(objects) :
        /\ HasAttr(objects[i], "path")
        /\ Len(objects[i].path) = advanced[i]
        /\ advanced[i] = 0 => objects[i].place = <<0, 0>>
        /\ advanced[i] > 0 => objects[i].path[advanced[i]] = objects[i].place

\* a step keeps every path entry there is
C9_PathKept ==
    \A i \in 1..Len(objects) :
        /\ Len(objects') >= Len(objects)
        /\ HasAttr(objects'[i], "path")
        /\ Len(objects'[i].path) >= Len(objects[i].path)
        /\ SubSeq(objects'[i].path, 1, Len(objects[i].path)) = objects[i].path

\* C9: every object has a path; before its first update the path is empty and the
\* place is the origin; afterwards the path has one entry per update and its last
\* entry is the place; no step removes or changes an entry.
C9_PathRecordsEveryUpdate == []C9_PathInv /\ [][C9_PathKept]_vars

\* C10: a construction that raises leaves Environment.objects as it was.
C10_FailedConstructionAborts ==
    [][err'.type = "ZeroDivisionError" => objects' = objects]_vars

====
